---- MODULE Spec2Model ----
(***************************************************************************)
(* Model of aggregatemonthly.js: the statistics utilities, the per-month   *)
(* accumulators (FundMetrics, MonthData) and processMonthlyData.           *)
(*                                                                         *)
(* Numbers.  Rates are decimal numbers with at most three decimals and are *)
(* held as integers in thousandths (5004 is 5.004, 125 is 0.125).  A value *)
(* produced by toFixed(2) is a multiple of 10 in that unit.  Arithmetic is *)
(* exact; Number.prototype.toFixed rounds the magnitude to the nearest     *)
(* hundredth and takes the larger one on a tie.                            *)
(*                                                                         *)
(* Strings.  A string is held as the sequence of its pieces, " " for a     *)
(* space and any other piece for a non-empty run of characters without a   *)
(* space: "01 January 2024" is <<"01", " ", "January", " ", "2024">> and   *)
(* the empty string is <<>>.                                               *)
(*                                                                         *)
(* Optional values.  A property that may be undefined is held as a         *)
(* sequence of length 0 (undefined) or 1 (the value).                      *)
(***************************************************************************)
EXTENDS Integers, Sequences, FiniteSets, TLC

VARIABLES dailyData, pos, monthsMap, errors, pc, monthlyData, arr, reported

vars == <<dailyData, pos, monthsMap, errors, pc, monthlyData, arr, reported>>

----------------------------------------------------------------------------
(* Generic helpers *)

RECURSIVE Sum(_)
Sum(s) == IF s = <<>> THEN 0 ELSE s[1] + Sum(Tail(s))

Abs(x) == IF x < 0 THEN -x ELSE x

\* (num / den).toFixed(2) read back as a number, den > 0; in thousandths.
ToFixed2(num, den) ==
    LET n == (2 * Abs(num) + 10 * den) \div (20 * den)
    IN  IF num < 0 THEN -(10 * n) ELSE 10 * n

\* Largest r with r * r <= x, for x >= 0, by bisection on lo..hi.
RECURSIVE ISqrtIn(_, _, _)
ISqrtIn(x, lo, hi) ==
    IF lo >= hi THEN lo
    ELSE LET mid == (lo + hi + 1) \div 2
         IN  IF mid * mid <= x THEN ISqrtIn(x, mid, hi) ELSE ISqrtIn(x, lo, mid - 1)

ISqrt(x) == ISqrtIn(x, 0, IF x < 46340 THEN x ELSE 46340)

\* Math.sqrt(sq / den).toFixed(2) read back as a number, where sq is a sum of
\* squares of thousandths.  The hundredths r of the result are the largest
\* r with (2r - 1) * 5 <= sqrt(sq / den), the larger one on a tie.
SqrtToFixed2(sq, den) == 10 * ((ISqrt(sq \div (25 * den)) + 1) \div 2)

\* Stable insertion of x into the ascending sequence s.
RECURSIVE InsertAsc(_, _)
InsertAsc(x, s) ==
    IF s = <<>> THEN <<x>>
    ELSE IF x < s[1] THEN <<x>> \o s
    ELSE <<s[1]>> \o InsertAsc(x, Tail(s))

\* [...arr].sort((a, b) => a - b)
RECURSIVE SortAsc(_)
SortAsc(s) == IF s = <<>> THEN <<>> ELSE InsertAsc(s[Len(s)], SortAsc(SubSeq(s, 1, Len(s) - 1)))

----------------------------------------------------------------------------
(* statistics *)

average(a) == IF Len(a) = 0 THEN 0 ELSE ToFixed2(Sum(a), Len(a))

median(a) ==
    IF Len(a) = 0 THEN 0
    ELSE LET sorted == SortAsc(a)
             mid == Len(sorted) \div 2
         IN  IF Len(sorted) % 2 = 0
             THEN ToFixed2(sorted[mid] + sorted[mid + 1], 2)
             ELSE ToFixed2(sorted[mid + 1], 1)

\* Sum over a of (val - mean)^2
RECURSIVE SumSqDev(_, _)
SumSqDev(a, mean) ==
    IF a = <<>> THEN 0 ELSE (a[1] - mean) * (a[1] - mean) + SumSqDev(Tail(a), mean)

stdDev(a) ==
    IF Len(a) = 0 THEN 0
    ELSE LET mean == average(a)
         IN  SqrtToFixed2(SumSqDev(a, mean), Len(a))

----------------------------------------------------------------------------
(* Strings *)

\* String.prototype.toUpperCase on one piece of a string.
ToUpperCase(w) ==
    CASE w = "January" -> "JANUARY"
      [] w = "March" -> "MARCH"
      [] w = "December" -> "DECEMBER"
      [] w = "Foo" -> "FOO"
      [] w = "undefined" -> "UNDEFINED"
      [] OTHER -> w

\* A string is a sequence of pieces: " " is a space, any other piece a
\* non-empty run of non-space characters.  Concatenation drops empty pieces.
Str(pieces) == SelectSeq(pieces, LAMBDA w : w # "")

\* The key built without upper-casing it.
UpperStrOmitted(s) == s

UpperStr(s) == [i \in 1..Len(s) |-> ToUpperCase(s[i])]

\* String.prototype.split(" "): the fields between the spaces; the empty
\* string has the single field "".
RECURSIVE SplitFrom(_, _)
SplitFrom(s, field) ==
    IF s = <<>> THEN <<field>>
    ELSE IF s[1] = " " THEN <<field>> \o SplitFrom(Tail(s), "")
    ELSE SplitFrom(Tail(s), s[1])

Split(s) == SplitFrom(s, "")

\* Array destructuring: the element at 0-based index i, or undefined.
At(a, i) == IF 0 <= i /\ i + 1 <= Len(a) THEN <<a[i + 1]>> ELSE <<>>

\* `${x}` in a template literal: undefined prints as "undefined".
Template(x) == IF x = <<>> THEN "undefined" ELSE x[1]

\* A number or NaN.
Num(n) == [nan |-> FALSE, v |-> n]
NaN == [nan |-> TRUE, v |-> 0]

\* ToNumber of a string or of undefined, as the operator - applies it.
ToNumber(x) ==
    IF x = <<>> THEN NaN
    ELSE CASE x[1] = "2023" -> Num(2023)
           [] x[1] = "2024" -> Num(2024)
           [] OTHER -> NaN

Minus(a, b) == IF a.nan \/ b.nan THEN NaN ELSE Num(a.v - b.v)

\* Array.prototype.indexOf, 0-based, -1 when absent.
IndexOf(a, x) ==
    IF \E i \in 1..Len(a) : a[i] = x
    THEN (CHOOSE i \in 1..Len(a) : a[i] = x /\ \A j \in 1..(i - 1) : a[j] # x) - 1
    ELSE -1

----------------------------------------------------------------------------
(* FundMetrics *)

NewFundMetrics ==
    [nominalRates |-> <<>>, afterTaxReturns |-> <<>>, realReturns |-> <<>>, count |-> 0]

addMetrics(m, nominal, afterTax, real) ==
    [nominalRates |-> Append(m.nominalRates, nominal),
     afterTaxReturns |-> Append(m.afterTaxReturns, afterTax),
     realReturns |-> Append(m.realReturns, real),
     count |-> m.count + 1]

getAverages(m) ==
    [nominalRate |-> average(m.nominalRates),
     afterTaxReturn |-> average(m.afterTaxReturns),
     realReturn |-> average(m.realReturns),
     dataPoints |-> m.count]

DetailOf(a) == [average |-> average(a), median |-> median(a), stdDev |-> stdDev(a)]

getDetailedStats(m) ==
    [nominalRate |-> DetailOf(m.nominalRates),
     afterTaxReturn |-> DetailOf(m.afterTaxReturns),
     realReturn |-> DetailOf(m.realReturns),
     dataPoints |-> m.count]

----------------------------------------------------------------------------
(* MonthData.  A Map is the sequence of its entries in insertion order. *)

NewMonthData == [fundsData |-> <<>>, statistics |-> NewFundMetrics]

Has(map, key) == \E i \in 1..Len(map) : map[i].key = key

Slot(map, key) == CHOOSE i \in 1..Len(map) : map[i].key = key

\* Map.prototype.set for a key the map does not hold yet.
SetNew(map, key, value) == Append(map, [key |-> key, value |-> value])

addFundData(md, fund) ==
    LET fd == IF Has(md.fundsData, fund.name)
              THEN md.fundsData
              ELSE SetNew(md.fundsData, fund.name, NewFundMetrics)
        i == Slot(fd, fund.name)
    IN  [md EXCEPT !.fundsData =
            [fd EXCEPT ![i].value =
                addMetrics(@, fund.nominalRate, fund.afterTaxReturn, fund.realReturn)]]

addStatistics(md, stats) ==
    [md EXCEPT !.statistics =
        addMetrics(@, stats.nominalRate, stats.afterTaxReturn, stats.realReturn)]

\* dayData.funds.forEach(fund => monthData.addFundData(fund))
RECURSIVE AddAllFunds(_, _)
AddAllFunds(md, funds) ==
    IF funds = <<>> THEN md ELSE AddAllFunds(addFundData(md, funds[1]), Tail(funds))

----------------------------------------------------------------------------
(* processMonthlyData: the body of the try block for one daily record.     *)
(* The result is the month map the body leaves behind and whether it       *)
(* threw; a throw keeps every mutation made before it.                     *)

MonthYearOf(date) ==
    LET fields == Split(date)
        month == At(fields, 1)
        year == At(fields, 2)
    IN  UpperStr(Str(<<Template(month), " ", Template(year)>>))

TryDay(map, dayData) ==
    IF dayData.metadata[1].date = <<>>
    THEN [map |-> map, threw |-> TRUE]
    ELSE LET monthYear == MonthYearOf(dayData.metadata[1].date[1])
             map1 == IF Has(map, monthYear) THEN map
                     ELSE SetNew(map, monthYear, NewMonthData)
             i == Slot(map1, monthYear)
         IN  IF dayData.funds = <<>>
             THEN [map |-> map1, threw |-> TRUE]
             ELSE LET map2 == [map1 EXCEPT ![i].value = AddAllFunds(@, dayData.funds[1])]
                  IN  IF dayData.metadata[1].statistics = <<>>
                      THEN [map |-> map2, threw |-> TRUE]
                      ELSE [map |-> [map2 EXCEPT ![i].value =
                                        addStatistics(@, dayData.metadata[1].statistics[1])],
                            threw |-> FALSE]

----------------------------------------------------------------------------
(* processMonthlyData: conversion to the final format *)

\* Ascending instead of descending.
FundCompareAscending(a, b) == a.nominalRate - b.nominalRate

\* A comparison function that never answers 0.
FundCompareNoTie(a, b) == IF b.nominalRate > a.nominalRate THEN 1 ELSE -1

FundCompare(a, b) == b.nominalRate - a.nominalRate

\* Array.prototype.sort is stable: x, which follows every element of the
\* sorted sequence s in the original order, goes before the first element
\* it compares lower than.
RECURSIVE InsertFund(_, _)
InsertFund(x, s) ==
    IF s = <<>> THEN <<x>>
    ELSE IF FundCompare(x, s[1]) < 0 THEN <<x>> \o s
    ELSE <<s[1]>> \o InsertFund(x, Tail(s))

RECURSIVE SortFunds(_)
SortFunds(s) ==
    IF s = <<>> THEN <<>>
    ELSE InsertFund(s[Len(s)], SortFunds(SubSeq(s, 1, Len(s) - 1)))

RankedFunds(data) ==
    LET entries == [i \in 1..Len(data.fundsData) |->
                       [name |-> data.fundsData[i].key]
                           @@ getAverages(data.fundsData[i].value)]
        sorted == SortFunds(entries)
    IN  [i \in 1..Len(sorted) |-> sorted[i] @@ [rank |-> i]]

\* { ...a[i] } for the 0-based index i: a copy of the element, held as the
\* one-element sequence of it; the spread of undefined is the empty object
\* {}, held as <<>>.
Spread(a, i) == At(a, i)

\* One past the last element.
BottomIndexPastEnd(funds) == Len(funds)

\* funds.length - 1
BottomIndex(funds) == Len(funds) - 1

MonthSummary(monthYear, data) ==
    LET funds == RankedFunds(data)
    IN  [month |-> monthYear,
         statistics |-> [average |-> getAverages(data.statistics),
                         detailed |-> getDetailedStats(data.statistics)],
         summary |-> [totalFunds |-> Len(funds),
                      topPerformer |-> Spread(funds, 0),
                      bottomPerformer |-> Spread(funds, BottomIndex(funds))],
         funds |-> funds]

Convert(map) == [i \in 1..Len(map) |-> MonthSummary(map[i].key, map[i].value)]

----------------------------------------------------------------------------
(* processMonthlyData: the chronological sort *)

months == <<"JANUARY", "FEBRUARY", "MARCH", "APRIL", "MAY", "JUNE",
            "JULY", "AUGUST", "SEPTEMBER", "OCTOBER", "NOVEMBER", "DECEMBER">>

\* The comparison function, on two month keys.
MonthCompare(a, b) ==
    LET aMonth == At(Split(a), 0)
        aYear == At(Split(a), 1)
        bMonth == At(Split(b), 0)
        bYear == At(Split(b), 1)
    IN  IF aYear # bYear
        THEN Minus(ToNumber(aYear), ToNumber(bYear))
        ELSE Num(IndexOf(months, aMonth[1]) - IndexOf(months, bMonth[1]))

\* SortCompare: a NaN from the comparison function counts as +0.
SortCompare(a, b) ==
    LET v == MonthCompare(a.month, b.month) IN IF v.nan THEN 0 ELSE v.v

\* Whether the comparison function is a consistent comparator for the
\* elements of s (ECMAScript, Array.prototype.sort).
Consistent(s) ==
    LET S == {s[i] : i \in 1..Len(s)}
    IN  /\ \A a \in S : SortCompare(a, a) = 0
        /\ \A a, b \in S : SortCompare(a, b) = 0 => SortCompare(b, a) = 0
        /\ \A a, b, c \in S :
              /\ SortCompare(a, b) = 0 /\ SortCompare(b, c) = 0 => SortCompare(a, c) = 0
              /\ SortCompare(a, b) < 0 /\ SortCompare(b, c) < 0 => SortCompare(a, c) < 0
              /\ SortCompare(a, b) > 0 /\ SortCompare(b, c) > 0 => SortCompare(a, c) > 0

RECURSIVE InsertMonth(_, _)
InsertMonth(x, s) ==
    IF s = <<>> THEN <<x>>
    ELSE IF SortCompare(x, s[1]) < 0 THEN <<x>> \o s
    ELSE <<s[1]>> \o InsertMonth(x, Tail(s))

RECURSIVE StableSortMonths(_)
StableSortMonths(s) ==
    IF s = <<>> THEN <<>>
    ELSE InsertMonth(s[Len(s)], StableSortMonths(SubSeq(s, 1, Len(s) - 1)))

Reorderings(s) == {[i \in 1..Len(s) |-> s[p[i]]] : p \in Permutations(1..Len(s))}

\* What monthlyData.sort(...) may leave: the stable sorted order under a
\* consistent comparator, an implementation-defined order otherwise.
SortOutcomes(s) == IF Consistent(s) THEN {StableSortMonths(s)} ELSE Reorderings(s)

----------------------------------------------------------------------------
(* Inputs *)

MaxDays == 3
MaxRankDays == 2
MaxSamples == 3

Jan01 == <<"01", " ", "January", " ", "2024">>
Jan15 == <<"15", " ", "JANUARY", " ", "2024">>
Mar23 == <<"01", " ", "March", " ", "2023">>
Dec23 == <<"01", " ", "December", " ", "2023">>
Foo24 == <<"01", " ", "Foo", " ", "2024">>
EmptyDate == <<>>

DayStats == [nominalRate |-> 5000, afterTaxReturn |-> 4250, realReturn |-> 1000]

Fund(name, rate) ==
    [name |-> name, nominalRate |-> rate, afterTaxReturn |-> rate - 750,
     realReturn |-> rate - 4000]

\* A daily record with every field present.
Day(date, funds) ==
    [metadata |-> <<[date |-> <<date>>, statistics |-> <<DayStats>>]>>,
     funds |-> <<funds>>]

NoMetadata == [metadata |-> <<>>, funds |-> <<<<>>>>]
NoDate(funds) == [metadata |-> <<[date |-> <<>>, statistics |-> <<DayStats>>]>>,
                  funds |-> <<funds>>]
NoFunds(date) == [metadata |-> <<[date |-> <<date>>, statistics |-> <<DayStats>>]>>,
                  funds |-> <<>>]
NoStatistics(date, funds) ==
    [metadata |-> <<[date |-> <<date>>, statistics |-> <<>>]>>, funds |-> <<funds>>]

FundX == Fund("X", 4000)

GroupingDays ==
    {Day(d, <<FundX>>) : d \in {Jan01, Jan15, Mar23, Dec23, Foo24, EmptyDate}}
    \cup {Day(Jan01, <<>>), NoMetadata, NoDate(<<FundX>>)}
    \cup {NoFunds(d) : d \in {Jan01, Mar23}}
    \cup {NoStatistics(d, <<FundX>>) : d \in {Jan01, Mar23}}

RankFunds == {Fund(n, r) : n \in {"A", "B", "C"}, r \in {5000, 5006}}

RankLists == {<<>>} \cup {<<f>> : f \in RankFunds}
                 \cup {<<f, g>> : f \in RankFunds, g \in RankFunds}

RankingDays ==
    {Day(Jan01, l) : l \in RankLists}
    \cup {Day(Mar23, <<f>>) : f \in RankFunds}
    \cup {NoStatistics(Jan01, <<f>>) : f \in {Fund("B", 5000), Fund("C", 5006)}}

SeqsUpTo(S, n) == UNION {[1..k -> S] : k \in 0..n}

Samples == {0, 5, 10, 125, 130, 2500}

----------------------------------------------------------------------------
(* The program *)

TypeInit ==
    /\ pos = 0
    /\ monthsMap = <<>>
    /\ errors = <<>>
    /\ monthlyData = <<>>
    /\ reported = <<>>

Init ==
    /\ dailyData \in SeqsUpTo(GroupingDays, MaxDays)
    /\ arr = <<>>
    /\ pc = "forEach"
    /\ TypeInit

InitRank ==
    /\ dailyData \in SeqsUpTo(RankingDays, MaxRankDays)
    /\ arr = <<>>
    /\ pc = "forEach"
    /\ TypeInit

InitStats ==
    /\ dailyData = <<>>
    /\ arr \in SeqsUpTo(Samples, MaxSamples)
    /\ pc = "statistics"
    /\ TypeInit

\* One call of the forEach callback, on dailyData[pos] (0-based pos).  When
\* the record has no metadata the catch block's own read of
\* dayData.metadata.date throws and processMonthlyData is left.
ProcessDay ==
    /\ pc = "forEach"
    /\ pos < Len(dailyData)
    /\ LET dayData == dailyData[pos + 1]
       IN  IF dayData.metadata = <<>>
           THEN /\ pc' = "threw"
                /\ UNCHANGED <<pos, monthsMap, errors>>
           ELSE LET r == TryDay(monthsMap, dayData)
                IN  /\ monthsMap' = r.map
                    /\ errors' = IF r.threw THEN Append(errors, pos) ELSE errors
                    /\ pos' = pos + 1
                    /\ pc' = pc
    /\ UNCHANGED <<dailyData, monthlyData, arr, reported>>

\* After the last record: conversion, ranking and the chronological sort.
Return ==
    /\ pc = "forEach"
    /\ pos = Len(dailyData)
    /\ monthlyData' \in SortOutcomes(Convert(monthsMap))
    /\ pc' = "returned"
    /\ UNCHANGED <<dailyData, pos, monthsMap, errors, arr, reported>>

\* The three statistics functions applied to arr.
Statistics ==
    /\ pc = "statistics"
    /\ reported' = <<DetailOf(arr)>>
    /\ pc' = "reported"
    /\ UNCHANGED <<dailyData, pos, monthsMap, errors, monthlyData, arr>>

Next == ProcessDay \/ Return

NextStats == Statistics

Spec == Init /\ [][Next]_vars

SpecRank == InitRank /\ [][Next]_vars

SpecStats == InitStats /\ [][NextStats]_vars

----------------------------------------------------------------------------
(* Vocabulary of the properties *)

Returned == pc = "returned"

Months == 1..Len(monthlyData)

\* The map entry a month summary was made from.
DataOf(m) == monthsMap[Slot(monthsMap, monthlyData[m].month)].value

\* A record all of whose fields are present.
Complete(k) ==
    /\ dailyData[k].metadata # <<>>
    /\ dailyData[k].metadata[1].date # <<>>
    /\ dailyData[k].metadata[1].statistics # <<>>
    /\ dailyData[k].funds # <<>>

HasDate(k) == dailyData[k].metadata # <<>> /\ dailyData[k].metadata[1].date # <<>>

DateOf(k) == dailyData[k].metadata[1].date[1]

\* A date of the form "day month year".
WellFormed(date) == Len(date) = 5 /\ date[2] = " " /\ date[4] = " "

\* The month key "MONTH YEAR" of a well-formed date.
KeyOf(date) == <<ToUpperCase(date[3]), " ", date[5]>>

Valid(k) == Complete(k) /\ WellFormed(DateOf(k))

\* A record of the month with that key that lists funds.
ListsFundsIn(k, key) ==
    /\ HasDate(k)
    /\ WellFormed(DateOf(k))
    /\ KeyOf(DateOf(k)) = key
    /\ dailyData[k].funds # <<>>

\* The places <<record, position in its funds list>> where a fund name
\* occurs in the input records of a month.
Appearances(name, key) ==
    UNION {{<<k, i>> : i \in {j \in 1..Len(dailyData[k].funds[1]) :
                                  dailyData[k].funds[1][j].name = name}} :
           k \in {n \in 1..Len(dailyData) : ListsFundsIn(n, key)}}

Earlier(p, q) == p[1] < q[1] \/ (p[1] = q[1] /\ p[2] < q[2])

AppearedFirst(f, g, key) ==
    \E p \in Appearances(f, key) : \A q \in Appearances(g, key) : Earlier(p, q)

----------------------------------------------------------------------------
(* Ranking *)

\* C1: in every month summary the ranks are exactly 1..totalFunds, each
\* once, the rank of a fund is its position in the funds list, the list is
\* in non-increasing order of the reported average nominal rate, and a fund
\* with a strictly greater reported average has the strictly lower rank.
C1_RanksFollowNominalRate ==
    Returned =>
        \A m \in Months :
            LET f == monthlyData[m].funds
                n == monthlyData[m].summary.totalFunds
            IN  /\ Len(f) = n
                /\ \A i \in 1..Len(f) : f[i].rank = i
                /\ \A r \in 1..n : Cardinality({i \in 1..Len(f) : f[i].rank = r}) = 1
                /\ \A i \in 1..Len(f) : f[i].rank \in 1..n
                /\ \A i, j \in 1..Len(f) :
                      /\ i < j => f[i].nominalRate >= f[j].nominalRate
                      /\ f[i].nominalRate > f[j].nominalRate => f[i].rank < f[j].rank

\* Three funds in a month, the one seen first ranked last.
C1_Witness ==
    /\ Returned
    /\ \E m \in Months :
          LET f == monthlyData[m].funds
          IN  /\ Len(f) = 3
              /\ f[1].nominalRate >= f[2].nominalRate
              /\ f[2].nominalRate > f[3].nominalRate
              /\ DataOf(m).fundsData[1].key = f[3].name

\* C2: two funds of a month with equal reported nominal rate are ranked in
\* the order of their first appearance in the records of that month, and
\* next to each other when no third fund reports the same rate.
C2_TiesKeepFirstAppearance ==
    Returned =>
        \A m \in Months :
            LET f == monthlyData[m].funds
                key == monthlyData[m].month
            IN  \A i, j \in 1..Len(f) :
                    (/\ i # j
                     /\ f[i].nominalRate = f[j].nominalRate
                     /\ AppearedFirst(f[i].name, f[j].name, key))
                    => /\ f[i].rank < f[j].rank
                       /\ (\A k \in 1..Len(f) :
                              f[k].nominalRate = f[i].nominalRate => k \in {i, j})
                          => f[j].rank = f[i].rank + 1

\* Two funds tied only after rounding, a better fund first seen between them.
C2_Witness ==
    /\ Returned
    /\ \E m \in Months :
          LET f == monthlyData[m].funds
              d == DataOf(m).fundsData
          IN  /\ Len(f) = 3
              /\ f[1].nominalRate > f[2].nominalRate
              /\ f[2].nominalRate = f[3].nominalRate
              /\ <<d[1].key, d[2].key, d[3].key>> = <<f[2].name, f[1].name, f[3].name>>
              /\ d[1].value.nominalRates # d[3].value.nominalRates
              /\ AppearedFirst(f[2].name, f[3].name, monthlyData[m].month)

\* C7 as stated: in every month summary topPerformer is the entry of rank 1
\* and bottomPerformer the entry of rank totalFunds, a month without funds
\* included.
C7_AsStated ==
    Returned =>
        \A m \in Months :
            LET f == monthlyData[m].funds
                s == monthlyData[m].summary
            IN  /\ \E i \in 1..Len(f) : f[i].rank = 1 /\ s.topPerformer = <<f[i]>>
                /\ \E i \in 1..Len(f) :
                      f[i].rank = s.totalFunds /\ s.bottomPerformer = <<f[i]>>

\* C7 amended: in every month summary with at least one fund topPerformer
\* is the entry of rank 1 and bottomPerformer the entry of rank totalFunds
\* (the same entry when there is one fund); in a month summary without
\* funds totalFunds is 0 and both are the empty object.
C7_TopAndBottom ==
    Returned =>
        \A m \in Months :
            LET f == monthlyData[m].funds
                s == monthlyData[m].summary
            IN  IF s.totalFunds = 0
                THEN f = <<>> /\ s.topPerformer = <<>> /\ s.bottomPerformer = <<>>
                ELSE /\ \E i \in 1..Len(f) : f[i].rank = 1 /\ s.topPerformer = <<f[i]>>
                     /\ \E i \in 1..Len(f) :
                           f[i].rank = s.totalFunds /\ s.bottomPerformer = <<f[i]>>
                     /\ s.totalFunds = 1 => s.topPerformer = s.bottomPerformer

\* A month without funds beside a month with a single fund.
C7_Witness ==
    /\ Returned
    /\ \E m \in Months :
          monthlyData[m].summary.totalFunds = 0 /\ monthlyData[m].summary.topPerformer = <<>>
    /\ \E m \in Months :
          /\ monthlyData[m].summary.totalFunds = 1
          /\ monthlyData[m].summary.topPerformer = <<monthlyData[m].funds[1]>>
          /\ monthlyData[m].summary.bottomPerformer = <<monthlyData[m].funds[1]>>

----------------------------------------------------------------------------
(* Grouping and the order of the months *)

SameMonthKey(j, k) ==
    /\ ToUpperCase(DateOf(j)[3]) = ToUpperCase(DateOf(k)[3])
    /\ DateOf(j)[5] = DateOf(k)[5]

\* C6: the output holds exactly one month summary for the month key of
\* every valid record, keyed by the upper-case form "MONTH YEAR", no two
\* summaries share a key, and the valid records gathered in it (counted by
\* its portfolio dataPoints) are exactly those whose month names are equal
\* ignoring case and whose years are equal, whatever their days.
C6_GroupedByMonthKey ==
    Returned =>
        /\ \A m, n \in Months : monthlyData[m].month = monthlyData[n].month => m = n
        /\ \A k \in 1..Len(dailyData) :
              Valid(k) =>
                  /\ Cardinality({m \in Months :
                                     monthlyData[m].month = KeyOf(DateOf(k))}) = 1
                  /\ \A m \in Months :
                        monthlyData[m].month = KeyOf(DateOf(k)) =>
                            monthlyData[m].statistics.average.dataPoints =
                                Cardinality({j \in 1..Len(dailyData) :
                                                Valid(j) /\ SameMonthKey(j, k)})

\* "01 January 2024" and "15 JANUARY 2024" in one bucket, beside another month.
C6_Witness ==
    /\ Returned
    /\ \E j, k \in 1..Len(dailyData) :
          Valid(j) /\ Valid(k) /\ DateOf(j) = Jan01 /\ DateOf(k) = Jan15
    /\ Len(monthlyData) = 2
    /\ \E m \in Months :
          /\ monthlyData[m].month = <<"JANUARY", " ", "2024">>
          /\ monthlyData[m].statistics.average.dataPoints = 2

\* The pair (year as integer, calendar index) of a month key.
Chrono(key) == [year |-> ToNumber(<<key[3]>>), index |-> IndexOf(months, key[1])]

ChronoLess(a, b) ==
    /\ ~Chrono(a).year.nan
    /\ ~Chrono(b).year.nan
    /\ \/ Chrono(a).year.v < Chrono(b).year.v
       \/ Chrono(a).year.v = Chrono(b).year.v /\ Chrono(a).index < Chrono(b).index

\* C3 as stated: for every input, any two adjacent month summaries of the
\* output are in strictly ascending order of (year as integer, calendar
\* index of the month name).
C3_AsStated ==
    Returned =>
        \A m \in Months :
            m + 1 \in Months => ChronoLess(monthlyData[m].month, monthlyData[m + 1].month)

\* C4 as stated: a record with a malformed date creates no bucket, so
\* every month summary of the output has the key of some record whose date
\* is well formed.
C4_AsStated ==
    Returned =>
        \A m \in Months :
            \E k \in 1..Len(dailyData) :
                /\ HasDate(k)
                /\ WellFormed(DateOf(k))
                /\ KeyOf(DateOf(k)) = monthlyData[m].month

\* C5 as stated: a record whose processing raises an error (the error is
\* logged) leaves the month buckets and every accumulator as they were
\* before the record was started.
C5_AsStated == [][errors' # errors => monthsMap' = monthsMap]_vars

\* C8 as stated: processMonthlyData never returns a month list holding a
\* bucket whose month name is not one of the twelve month names.
C8_AsStated ==
    Returned =>
        \A m \in Months : \E i \in 1..Len(months) : months[i] = monthlyData[m].month[1]

----------------------------------------------------------------------------
(* Statistics *)

\* C9 as stated: average, median and stdDev of the empty sequence are 0,
\* and stdDev of every one-element sequence is 0.
C9_AsStated ==
    reported # <<>> =>
        /\ Len(arr) = 0 =>
              reported[1].average = 0 /\ reported[1].median = 0 /\ reported[1].stdDev = 0
        /\ Len(arr) = 1 => reported[1].stdDev = 0

\* The population standard deviation about the exact mean, rounded once:
\* the variance is (n * sum of squares - square of the sum) / n^2.
ExactStdDev(a) ==
    LET n == Len(a)
        sq == Sum([i \in 1..n |-> a[i] * a[i]])
    IN  10 * ((ISqrt((n * sq - Sum(a) * Sum(a)) \div (25 * n * n)) + 1) \div 2)

\* C10 as stated: for a non-empty sequence stdDev is the population
\* standard deviation about the exact, unrounded mean, rounded once.
C10_AsStated ==
    reported # <<>> /\ Len(arr) > 0 => reported[1].stdDev = ExactStdDev(arr)

====
